---- MODULE Spec2Model ----
(***************************************************************************)
(* Lexer, recursive-descent parser, parse tree and evaluator of the        *)
(* expression grammar                                                      *)
(*     E -> T E'   E' -> + T E' | eps   T -> F T'   T' -> * F T' | eps     *)
(*     F -> ( E ) | id                                                     *)
(* modelled from src/core/lexer.py, src/core/token.py, src/core/parser.py  *)
(* and src/utils/errors.py.                                                *)
(*                                                                         *)
(* Python's None is the empty tuple and a present optional value x is the  *)
(* one-element tuple <<x>>.  A Python string that the code only builds and *)
(* never parses back (an error message, a derivation step, a rendered tree *)
(* line) is the tuple of the parts it is formatted from.                   *)
(***************************************************************************)
EXTENDS Integers, Sequences, FiniteSets, TLC

VARIABLES
    lexer,        \* the Lexer instance: input_string, position, current_char, tokens, errors
    lex_pc,       \* "idle" | "scan" (inside tokenize's while loop) | "done"
    lex_arg,      \* the string the running / last tokenize call was given
    lex_result,   \* outcome of the last tokenize call: None, a return or a raise
    lex_used,     \* characters handed to tokenize so far (bounds the inputs)
    held,         \* the list a caller got from the last tokenize call that
                  \* returned one: its tokens, and whether the Lexer's tokens
                  \* attribute is still bound to this list
    parser,       \* the Parser instance: tokens, current_index, current_token,
                  \* parse_tree_root, parse_steps, errors, warnings, node_counter
    stack,        \* call stack of the running parse: frames [fn, pc, node]
    retval,       \* node returned by the routine that returned last
    pc,           \* "idle" | "derive" | "complete" | "evaluate" | "done"
    outcome,      \* outcome of the last parse call: None, a return or a raise
    last,         \* name of the Parser operation or routine that ran last
    eval_result,  \* what the last get_evaluation_result call returned
    used,         \* tokens handed to parse so far (bounds the inputs)
    table,        \* the SymbolTable instance: entries, total_tokens,
                  \* unique_tokens, token_types_count
    stats,        \* what the last get_statistics call returned
    table_log     \* the calls made on the SymbolTable so far, in order

lexvars == <<lexer, lex_pc, lex_arg, lex_result, lex_used, held>>
parvars == <<parser, stack, retval, pc, outcome, last, eval_result, used>>
tabvars == <<table, stats, table_log>>
vars == <<lexer, lex_pc, lex_arg, lex_result, lex_used, held,
          parser, stack, retval, pc, outcome, last, eval_result, used,
          table, stats, table_log>>

None == <<>>
Some(x) == <<x>>

----------------------------------------------------------------------------
(* Bounds *)

\* characters handed to tokenize over all calls on one Lexer
MaxInputLen == 4
\* tokens handed to parse over all calls on one Parser
MaxTokens == 4
\* longest token sequence handed to a fresh Parser
MaxOnceTokens == 5
\* longest token sequence over DeepTexts handed to a fresh Parser
MaxDeepTokens == 7
\* characters handed to tokenize over all the analyses of one application
MaxAnalysisLen == 3
\* calls made on one SymbolTable
MaxTableCalls == 4

----------------------------------------------------------------------------
(* Characters *)

DigitChars == <<"0", "1", "2", "3", "4", "5", "6", "7", "8", "9">>
LetterChars == {"a", "b", "c", "x", "y", "z", "A", "B", "C", "X", "Y", "Z"}
Symbols == {"+", "*", "(", ")"}

\* str.isspace, str.isdigit, str.isalnum on one ASCII character
isspace(c) == c \in {" "}
isdigit(c) == \E i \in 1..Len(DigitChars) : DigitChars[i] = c
isalnum(c) == isdigit(c) \/ c \in LetterChars
\* int(c) for a digit character
int(c) == (CHOOSE i \in 1..Len(DigitChars) : DigitChars[i] = c) - 1

\* characters of the strings given to tokenize; "#" is an invalid character
Chars == Symbols \cup {"a", "2", " ", "#"}
\* texts of the tokens given to parse
Texts == Symbols \cup {"a", "2", "3"}
DeepTexts == Symbols \cup {"2"}

----------------------------------------------------------------------------
(* Tokens: src/core/token.py *)

PLUS == "PLUS"
MULTIPLY == "MULTIPLY"
LPAREN == "LPAREN"
RPAREN == "RPAREN"
ID == "ID"
INVALID == "INVALID"

Token(token_type, value, position) ==
    [type |-> token_type, value |-> value, position |-> position]

is_valid(token) == token.type # INVALID

----------------------------------------------------------------------------
(* Lexer: src/core/lexer.py *)

RECURSIVE lstrip(_)
lstrip(s) ==
    IF s # <<>> /\ isspace(Head(s)) THEN lstrip(Tail(s)) ELSE s

RECURSIVE rstrip(_)
rstrip(s) ==
    IF s # <<>> /\ isspace(s[Len(s)]) THEN rstrip(SubSeq(s, 1, Len(s) - 1)) ELSE s

\* str.strip()
strip(s) == rstrip(lstrip(s))

LexicalError(position, character) ==
    [class |-> "LexicalError", message |-> <<"Invalid character", character, "found">>,
     position |-> Some(position), character |-> character]

EmptyInputError ==
    [class |-> "EmptyInputError",
     message |-> <<"Input string is empty or contains only whitespace">>,
     position |-> None]

\* Python indexes from 0
CharAt(s, i) == s[i + 1]

\* Lexer._advance, on a lexer record
_advance(lx) ==
    LET p == lx.position + 1 IN
    [lx EXCEPT !.position = p,
               !.current_char = IF p >= Len(lx.input_string)
                                THEN None
                                ELSE Some(CharAt(lx.input_string, p))]

\* Lexer._skip_whitespace
RECURSIVE _skip_whitespace(_)
_skip_whitespace(lx) ==
    IF lx.current_char # None /\ isspace(lx.current_char[1])
    THEN _skip_whitespace(_advance(lx))
    ELSE lx

\* a _get_next_token that takes letters only for identifiers
_get_next_token_letters(lx) ==
    LET char == lx.current_char[1]
        position == lx.position
    IN  IF char = "+" THEN [lx |-> _advance(lx), token |-> Token(PLUS, "+", position)]
        ELSE IF char = "*" THEN [lx |-> _advance(lx), token |-> Token(MULTIPLY, "*", position)]
        ELSE IF char = "(" THEN [lx |-> _advance(lx), token |-> Token(LPAREN, "(", position)]
        ELSE IF char = ")" THEN [lx |-> _advance(lx), token |-> Token(RPAREN, ")", position)]
        ELSE IF char \in LetterChars
        THEN [lx |-> _advance(lx), token |-> Token(ID, char, position)]
        ELSE [lx |-> _advance([lx EXCEPT !.errors = Append(@, LexicalError(position, char))]),
              token |-> Token(INVALID, char, position)]

\* Lexer._get_next_token: the lexer after the call and the token returned
_get_next_token(lx) ==
    LET char == lx.current_char[1]
        position == lx.position
    IN  IF char = "+" THEN [lx |-> _advance(lx), token |-> Token(PLUS, "+", position)]
        ELSE IF char = "*" THEN [lx |-> _advance(lx), token |-> Token(MULTIPLY, "*", position)]
        ELSE IF char = "(" THEN [lx |-> _advance(lx), token |-> Token(LPAREN, "(", position)]
        ELSE IF char = ")" THEN [lx |-> _advance(lx), token |-> Token(RPAREN, ")", position)]
        ELSE IF isalnum(char) THEN [lx |-> _advance(lx), token |-> Token(ID, char, position)]
        ELSE [lx |-> _advance([lx EXCEPT !.errors = Append(@, LexicalError(position, char))]),
              token |-> Token(INVALID, char, position)]

\* a reset that leaves the errors of the last call
lexer_reset_keeps_errors(lx, input_string) ==
    [lx EXCEPT !.input_string = strip(input_string), !.position = 0, !.tokens = <<>>]

\* a reset that leaves the tokens and errors of the last call
lexer_reset_partly(lx, input_string) ==
    [lx EXCEPT !.input_string = strip(input_string), !.position = 0]

\* an end of tokenize that raises the error recorded last
tokenize_result_last(lx) ==
    IF lx.errors # <<>>
    THEN [kind |-> "raise", error |-> lx.errors[Len(lx.errors)]]
    ELSE [kind |-> "return", tokens |-> lx.tokens]

\* self.tokens = [] seen from a caller that holds the list returned before, when
\* the statement empties the list instead of binding the attribute to a new one
tokens_cleared(h) ==
    IF h = None THEN None
    ELSE IF h[1].bound THEN Some([tokens |-> <<>>, bound |-> TRUE])
    ELSE h

\* self.tokens = [] seen from a caller that holds the list returned before: the
\* attribute is bound to a new list, the list held is no longer the Lexer's
tokens_rebound(h) ==
    IF h = None THEN None ELSE Some([h[1] EXCEPT !.bound = FALSE])

\* self.tokens.append(token) seen from that caller: the list held grows when it
\* is the list the attribute is bound to
tokens_appended(h, token) ==
    IF h # None /\ h[1].bound
    THEN Some([h[1] EXCEPT !.tokens = Append(@, token)])
    ELSE h

\* return self.tokens: the caller holds the list the attribute is bound to
tokens_returned(lx) == Some([tokens |-> lx.tokens, bound |-> TRUE])

\* the state reset at the entry of tokenize
lexer_reset(lx, input_string) ==
    [lx EXCEPT !.input_string = strip(input_string), !.position = 0,
               !.tokens = <<>>, !.errors = <<>>]

\* the end of tokenize: the first recorded error is raised, or the tokens returned
tokenize_result(lx) ==
    IF lx.errors # <<>>
    THEN [kind |-> "raise", error |-> lx.errors[1]]
    ELSE [kind |-> "return", tokens |-> lx.tokens]

LexerInit ==
    /\ lexer = [input_string |-> <<>>, position |-> 0, current_char |-> None,
                tokens |-> <<>>, errors |-> <<>>]
    /\ lex_pc = "idle"
    /\ lex_arg = <<>>
    /\ lex_result = None
    /\ lex_used = 0
    /\ held = None

\* tokenize, from entry to the first test of the while loop
Tokenize(input_string) ==
    /\ lex_pc \in {"idle", "done"}
    /\ lex_arg' = input_string
    /\ lex_used' = lex_used + Len(input_string)
    /\ held' = tokens_rebound(held)
    /\ LET reset == lexer_reset(lexer, input_string)
           s == reset.input_string
       IN  IF s = <<>>
           THEN /\ lexer' = reset
                /\ lex_pc' = "done"
                /\ lex_result' = Some([kind |-> "raise", error |-> EmptyInputError])
           ELSE /\ lexer' = [reset EXCEPT !.current_char = Some(CharAt(s, 0))]
                /\ lex_pc' = "scan"
                /\ lex_result' = None

\* one iteration of tokenize's while loop
ScanStep ==
    /\ lex_pc = "scan"
    /\ lexer.current_char # None
    /\ IF isspace(lexer.current_char[1])
       THEN /\ lexer' = _skip_whitespace(lexer)
            /\ UNCHANGED held
       ELSE LET r == _get_next_token(lexer)
            IN  /\ lexer' = [r.lx EXCEPT !.tokens = Append(@, r.token)]
                /\ held' = tokens_appended(held, r.token)
    /\ UNCHANGED <<lex_pc, lex_arg, lex_result, lex_used>>

\* the while loop has ended: raise the first recorded error or return the tokens
ScanEnd ==
    /\ lex_pc = "scan"
    /\ lexer.current_char = None
    /\ lex_pc' = "done"
    /\ lex_result' = Some(tokenize_result(lexer))
    /\ held' = IF tokenize_result(lexer).kind = "return" THEN tokens_returned(lexer) ELSE held
    /\ UNCHANGED <<lexer, lex_arg, lex_used>>

LexerNext ==
    \/ /\ \E n \in 0..(MaxInputLen - lex_used) : \E input_string \in [1..n -> Chars] :
              Tokenize(input_string)
       /\ UNCHANGED <<parvars, tabvars>>
    \/ ScanStep /\ UNCHANGED <<parvars, tabvars>>
    \/ ScanEnd /\ UNCHANGED <<parvars, tabvars>>

\* Lexer(): the fields of a new instance
Lexer ==
    [input_string |-> <<>>, position |-> 0, current_char |-> None,
     tokens |-> <<>>, errors |-> <<>>]

\* the while loop of tokenize, run from the lexer lx to its end
RECURSIVE scan_loop(_)
scan_loop(lx) ==
    IF lx.current_char = None THEN lx
    ELSE IF isspace(lx.current_char[1]) THEN scan_loop(_skip_whitespace(lx))
    ELSE LET r == _get_next_token(lx)
         IN  scan_loop([r.lx EXCEPT !.tokens = Append(@, r.token)])

\* a whole tokenize call on the lexer lx: the lexer afterwards and the result
tokenize(lx, input_string) ==
    LET reset == lexer_reset(lx, input_string)
        s == reset.input_string
    IN  IF s = <<>>
        THEN [lx |-> reset, result |-> [kind |-> "raise", error |-> EmptyInputError]]
        ELSE LET end == scan_loop([reset EXCEPT !.current_char = Some(CharAt(s, 0))])
             IN  [lx |-> end, result |-> tokenize_result(end)]

----------------------------------------------------------------------------
(* Errors raised by the parser: src/utils/errors.py *)

ParserSyntaxError(message, position, token, expected) ==
    [class |-> "ParserSyntaxError", message |-> message, position |-> position,
     token |-> token, expected |-> expected]

SemanticError(message, position, token, context) ==
    [class |-> "SemanticError", message |-> message, position |-> position,
     token |-> token, context |-> context]

UnexpectedEndOfInputError(expected) ==
    [class |-> "UnexpectedEndOfInputError",
     message |-> <<"Unexpected end of input, expected", expected>>,
     position |-> None, token |-> None, expected |-> Some(expected)]

----------------------------------------------------------------------------
(* ParseTreeNode: src/core/parser.py *)

\* a node that is created with the value 0
ParseTreeNode_valued(rule, token) ==
    [rule |-> rule, children |-> <<>>, token |-> token, value |-> Some(0),
     depth |-> 0, node_id |-> None]

\* ParseTreeNode.__init__: the fields of a new node
ParseTreeNode(rule, token) ==
    [rule |-> rule, children |-> <<>>, token |-> token, value |-> None,
     depth |-> 0, node_id |-> None]

\* an add_child that puts the child in front of the others
add_child_front(node, child) ==
    [node EXCEPT !.children = <<[child EXCEPT !.depth = node.depth + 1]>> \o @]

\* ParseTreeNode.add_child: the parent after the call
add_child(node, child) ==
    [node EXCEPT !.children = Append(@, [child EXCEPT !.depth = node.depth + 1])]

\* an assignment that adds to the value the node holds already
set_value_accumulates(self, v) ==
    [self EXCEPT !.value = IF @ = None \/ v = None THEN v ELSE Some(@[1] + v[1])]

\* the assignment self.value = v
set_value(self, v) == [self EXCEPT !.value = v]

\* value of an id leaf: its integer if its text is a digit, else the placeholder
id_value(token) == IF isdigit(token.value) THEN Some(int(token.value)) ELSE Some(1)

\* t_val + e_prime_val if e_prime_val is not None else t_val
sum_value(t_val, e_prime_val) ==
    IF e_prime_val # None THEN Some(t_val[1] + e_prime_val[1]) ELSE t_val

\* a T whose fallback is taken when the rest of the term is worth 2
T_value_fallback_at_2(f_val, t_prime_val) ==
    IF t_prime_val # None /\ t_prime_val # Some(2)
    THEN Some(f_val[1] * t_prime_val[1])
    ELSE f_val

\* a T that adds its factor and the rest of the term
T_value_adds(f_val, t_prime_val) ==
    IF t_prime_val # None /\ t_prime_val # Some(1)
    THEN Some(f_val[1] + t_prime_val[1])
    ELSE f_val

\* f_val * t_prime_val if t_prime_val is not None and t_prime_val != 1 else f_val
T_value(f_val, t_prime_val) ==
    IF t_prime_val # None /\ t_prime_val # Some(1)
    THEN Some(f_val[1] * t_prime_val[1])
    ELSE f_val

\* f_val * t_prime_val if t_prime_val is not None else f_val
product_value(f_val, t_prime_val) ==
    IF t_prime_val # None THEN Some(f_val[1] * t_prime_val[1]) ELSE f_val

\* ParseTreeNode.evaluate: the subtree after the call; the call returns its root's value
RECURSIVE evaluate(_)
evaluate(self) ==
    LET n == Len(self.children)
        \* child i after its evaluate call
        ev(i) == evaluate(self.children[i])
    IN  IF self.token # None /\ self.token[1].type = ID
        THEN set_value(self, id_value(self.token[1]))
        ELSE IF self.rule = "E"
        THEN IF n >= 2
             THEN LET t == ev(1)
                      e_prime == ev(2)
                  IN  set_value([self EXCEPT !.children[1] = t, !.children[2] = e_prime],
                                sum_value(t.value, e_prime.value))
             ELSE self
        ELSE IF self.rule = "E'"
        THEN IF n = 0 THEN set_value(self, Some(0))
             ELSE IF n >= 2
             THEN LET t == ev(2) IN
                  IF n > 2
                  THEN LET e_prime == ev(3) IN
                       set_value([self EXCEPT !.children[2] = t, !.children[3] = e_prime],
                                 sum_value(t.value, e_prime.value))
                  ELSE set_value([self EXCEPT !.children[2] = t], t.value)
             ELSE self
        ELSE IF self.rule = "T"
        THEN IF n >= 2
             THEN LET f == ev(1)
                      t_prime == ev(2)
                  IN  set_value([self EXCEPT !.children[1] = f, !.children[2] = t_prime],
                                T_value(f.value, t_prime.value))
             ELSE self
        ELSE IF self.rule = "T'"
        THEN IF n = 0 THEN set_value(self, Some(1))
             ELSE IF n >= 2
             THEN LET f == ev(2) IN
                  IF n > 2
                  THEN LET t_prime == ev(3) IN
                       set_value([self EXCEPT !.children[2] = f, !.children[3] = t_prime],
                                 product_value(f.value, t_prime.value))
                  ELSE set_value([self EXCEPT !.children[2] = f], f.value)
             ELSE self
        ELSE IF self.rule = "F"
        THEN IF n = 1
             THEN LET c == ev(1) IN set_value([self EXCEPT !.children[1] = c], c.value)
             ELSE IF n >= 3
             THEN LET e == ev(2) IN set_value([self EXCEPT !.children[2] = e], e.value)
             ELSE self
        ELSE self

\* ParseTreeNode.get_tree_string: the lines of the string, each line the tuple of
\* its prefix, connector, rule, token text (if any) and value (if any)
RECURSIVE get_tree_string(_, _, _)
RECURSIVE children_strings(_, _, _)
get_tree_string(self, prefix, is_last) ==
    LET connector == IF is_last THEN "L-- " ELSE "+-- "
        line == <<prefix, connector, self.rule,
                  IF self.token # None THEN Some(self.token[1].value) ELSE None,
                  self.value>>
        child_prefix == Append(prefix, IF is_last THEN "    " ELSE "|   ")
    IN  <<line>> \o children_strings(self.children, child_prefix, 1)

\* the loop over the children in get_tree_string, from child i on
children_strings(children, child_prefix, i) ==
    IF i > Len(children) THEN <<>>
    ELSE get_tree_string(children[i], child_prefix, i = Len(children))
         \o children_strings(children, child_prefix, i + 1)

----------------------------------------------------------------------------
(* Parser: src/core/parser.py *)

IsOperator(token) == token.type \in {PLUS, MULTIPLY}

\* a paren_count loop that does not count a matched ")" down
RECURSIVE paren_scan_no_decrement(_, _, _)
paren_scan_no_decrement(tokens, i, paren_count) ==
    IF i > Len(tokens) THEN [bad |-> 0, count |-> paren_count]
    ELSE IF tokens[i].type = LPAREN
    THEN paren_scan_no_decrement(tokens, i + 1, paren_count + 1)
    ELSE IF tokens[i].type = RPAREN
    THEN IF paren_count - 1 < 0
         THEN [bad |-> i, count |-> paren_count - 1]
         ELSE paren_scan_no_decrement(tokens, i + 1, paren_count)
    ELSE paren_scan_no_decrement(tokens, i + 1, paren_count)

\* the paren_count loop of _perform_semantic_analysis over tokens[i..]: the index
\* of the first ")" that makes the counter negative (0 if none) and the final counter
RECURSIVE paren_scan(_, _, _)
paren_scan(tokens, i, paren_count) ==
    IF i > Len(tokens) THEN [bad |-> 0, count |-> paren_count]
    ELSE IF tokens[i].type = LPAREN THEN paren_scan(tokens, i + 1, paren_count + 1)
    ELSE IF tokens[i].type = RPAREN
    THEN IF paren_count - 1 < 0
         THEN [bad |-> i, count |-> paren_count - 1]
         ELSE paren_scan(tokens, i + 1, paren_count - 1)
    ELSE paren_scan(tokens, i + 1, paren_count)

\* the consecutive-operator loop: the error for the leftmost pair, or None
check_consecutive(tokens) ==
    LET pairs == {i \in 1..(Len(tokens) - 1) :
                      IsOperator(tokens[i]) /\ IsOperator(tokens[i + 1])}
        first == CHOOSE i \in pairs : \A j \in pairs : i <= j
    IN  IF pairs # {}
        THEN Some(SemanticError(
                 <<"Consecutive operators", tokens[first].value, tokens[first + 1].value>>,
                 Some(tokens[first].position), Some(tokens[first]), "operator sequence"))
        ELSE None

\* the operator-at-start check
check_start(tokens) ==
    IF IsOperator(tokens[1])
    THEN Some(SemanticError(<<"Expression cannot start with operator", tokens[1].value>>,
                            Some(tokens[1].position), Some(tokens[1]), "expression start"))
    ELSE None

\* an operator-at-end check that finds nothing
check_end_never(tokens) == None

\* the operator-at-end check
check_end(tokens) ==
    IF IsOperator(tokens[Len(tokens)])
    THEN Some(SemanticError(
             <<"Expression cannot end with operator", tokens[Len(tokens)].value>>,
             Some(tokens[Len(tokens)].position), Some(tokens[Len(tokens)]),
             "expression end"))
    ELSE None

\* the parentheses balance check
check_parens(tokens) ==
    LET scan == paren_scan(tokens, 1, 0) IN
    IF scan.bad # 0
    THEN Some(SemanticError(<<"Unmatched closing parenthesis">>,
                            Some(tokens[scan.bad].position), Some(tokens[scan.bad]),
                            "parentheses balance"))
    ELSE IF scan.count > 0
    THEN Some(SemanticError(<<scan.count, "unmatched opening parenthesis(es)">>,
                            None, None, "parentheses balance"))
    ELSE None

\* a semantic analysis that looks at the first token before the adjacent pairs
_perform_semantic_analysis_start_first(tokens) ==
    IF tokens = <<>> THEN None
    ELSE IF check_start(tokens) # None THEN check_start(tokens)
    ELSE IF check_consecutive(tokens) # None THEN check_consecutive(tokens)
    ELSE IF check_end(tokens) # None THEN check_end(tokens)
    ELSE check_parens(tokens)

\* Parser._perform_semantic_analysis: the SemanticError it raises, or None
_perform_semantic_analysis(tokens) ==
    IF tokens = <<>> THEN None
    ELSE IF check_consecutive(tokens) # None THEN check_consecutive(tokens)
    ELSE IF check_start(tokens) # None THEN check_start(tokens)
    ELSE IF check_end(tokens) # None THEN check_end(tokens)
    ELSE check_parens(tokens)

\* Parser._add_parse_step
_add_parse_step(p, step) == [p EXCEPT !.parse_steps = Append(@, step)]

\* Parser._get_node_id together with the assignment node.node_id = ...
\* : the parser and the node after the call
new_node(p, rule, token) ==
    [p |-> [p EXCEPT !.node_counter = @ + 1],
     node |-> [ParseTreeNode(rule, token) EXCEPT !.node_id = Some(p.node_counter + 1)]]

\* a _consume_token that leaves no entry in the derivation trace
_consume_token_silent(p, expected_type) ==
    IF p.current_token = None
    THEN [p |-> p, error |-> Some(UnexpectedEndOfInputError(expected_type))]
    ELSE IF p.current_token[1].type # expected_type
    THEN [p |-> p,
          error |-> Some(ParserSyntaxError(<<"Expected", expected_type>>,
                                           Some(p.current_token[1].position),
                                           p.current_token, Some(expected_type)))]
    ELSE LET i == p.current_index + 1
         IN  [p |-> [p EXCEPT !.current_index = i,
                              !.current_token = IF i < Len(p.tokens)
                                                THEN Some(p.tokens[i + 1])
                                                ELSE None],
              error |-> None]

\* a _consume_token that does not compare the kind of the current token
_consume_token_unchecked(p, expected_type) ==
    IF p.current_token = None
    THEN [p |-> p, error |-> Some(UnexpectedEndOfInputError(expected_type))]
    ELSE LET q == _add_parse_step(p, <<"Consumed", p.current_token[1]>>)
             i == q.current_index + 1
         IN  [p |-> [q EXCEPT !.current_index = i,
                              !.current_token = IF i < Len(q.tokens)
                                                THEN Some(q.tokens[i + 1])
                                                ELSE None],
              error |-> None]

\* Parser._consume_token: the parser after the call and the error raised, if any
_consume_token(p, expected_type) ==
    IF p.current_token = None
    THEN [p |-> p, error |-> Some(UnexpectedEndOfInputError(expected_type))]
    ELSE IF p.current_token[1].type # expected_type
    THEN [p |-> p,
          error |-> Some(ParserSyntaxError(<<"Expected", expected_type>>,
                                           Some(p.current_token[1].position),
                                           p.current_token, Some(expected_type)))]
    ELSE LET q == _add_parse_step(p, <<"Consumed", p.current_token[1]>>)
             i == q.current_index + 1
         IN  [p |-> [q EXCEPT !.current_index = i,
                              !.current_token = IF i < Len(q.tokens)
                                                THEN Some(q.tokens[i + 1])
                                                ELSE None],
              error |-> None]

\* What one step of a parsing routine does: call another routine (its own frame
\* kept on the stack), return a node to its caller, or raise an error
Call(p, frame, fn) == [kind |-> "call", p |-> p, frame |-> frame, fn |-> fn]
Return(p, node) == [kind |-> "return", p |-> p, node |-> node]
Raise(p, error) == [kind |-> "raise", p |-> p, error |-> error]

Frame(fn) == [fn |-> fn, pc |-> "start", node |-> None]

\* Parser._parse_E, from frame.pc to its next call or its return; ret is the node
\* the routine it called has returned
_parse_E(p, frame, ret) ==
    IF frame.pc = "start"
    THEN LET nn == new_node(_add_parse_step(p, <<"E -> TE'">>), "E", None)
         IN  Call(nn.p, [frame EXCEPT !.node = nn.node, !.pc = "T"], "T")
    ELSE IF frame.pc = "T"
    THEN Call(p, [frame EXCEPT !.node = add_child(@, ret), !.pc = "E'"], "E'")
    ELSE Return(p, add_child(frame.node, ret))

\* an E' that takes one "+ T" and does not go on to the next E'
_parse_E_prime_once(p, frame, ret) ==
    IF frame.pc = "start"
    THEN LET nn == new_node(p, "E'", None) IN
         IF nn.p.current_token # None /\ nn.p.current_token[1].type = PLUS
         THEN LET plus == new_node(_add_parse_step(nn.p, <<"E' -> +TE'">>), "+",
                                   nn.p.current_token)
                  c == _consume_token(plus.p, PLUS)
              IN  IF c.error # None THEN Raise(c.p, c.error[1])
                  ELSE Call(c.p, [frame EXCEPT !.node = add_child(nn.node, plus.node),
                                               !.pc = "T"], "T")
         ELSE Return(_add_parse_step(nn.p, <<"E' -> eps">>), nn.node)
    ELSE Return(p, add_child(frame.node, ret))

\* Parser._parse_E_prime
_parse_E_prime(p, frame, ret) ==
    IF frame.pc = "start"
    THEN LET nn == new_node(p, "E'", None) IN
         IF nn.p.current_token # None /\ nn.p.current_token[1].type = PLUS
         THEN LET plus == new_node(_add_parse_step(nn.p, <<"E' -> +TE'">>), "+",
                                   nn.p.current_token)
                  c == _consume_token(plus.p, PLUS)
              IN  IF c.error # None THEN Raise(c.p, c.error[1])
                  ELSE Call(c.p, [frame EXCEPT !.node = add_child(nn.node, plus.node),
                                               !.pc = "T"], "T")
         ELSE Return(_add_parse_step(nn.p, <<"E' -> eps">>), nn.node)
    ELSE IF frame.pc = "T"
    THEN Call(p, [frame EXCEPT !.node = add_child(@, ret), !.pc = "E'"], "E'")
    ELSE Return(p, add_child(frame.node, ret))

\* Parser._parse_T
_parse_T(p, frame, ret) ==
    IF frame.pc = "start"
    THEN LET nn == new_node(_add_parse_step(p, <<"T -> FT'">>), "T", None)
         IN  Call(nn.p, [frame EXCEPT !.node = nn.node, !.pc = "F"], "F")
    ELSE IF frame.pc = "F"
    THEN Call(p, [frame EXCEPT !.node = add_child(@, ret), !.pc = "T'"], "T'")
    ELSE Return(p, add_child(frame.node, ret))

\* Parser._parse_T_prime
_parse_T_prime(p, frame, ret) ==
    IF frame.pc = "start"
    THEN LET nn == new_node(p, "T'", None) IN
         IF nn.p.current_token # None /\ nn.p.current_token[1].type = MULTIPLY
         THEN LET mult == new_node(_add_parse_step(nn.p, <<"T' -> *FT'">>), "*",
                                   nn.p.current_token)
                  c == _consume_token(mult.p, MULTIPLY)
              IN  IF c.error # None THEN Raise(c.p, c.error[1])
                  ELSE Call(c.p, [frame EXCEPT !.node = add_child(nn.node, mult.node),
                                               !.pc = "F"], "F")
         ELSE Return(_add_parse_step(nn.p, <<"T' -> eps">>), nn.node)
    ELSE IF frame.pc = "F"
    THEN Call(p, [frame EXCEPT !.node = add_child(@, ret), !.pc = "T'"], "T'")
    ELSE Return(p, add_child(frame.node, ret))

\* Parser._parse_F
_parse_F(p, frame, ret) ==
    IF frame.pc = "start"
    THEN IF p.current_token = None
         THEN Raise(p, UnexpectedEndOfInputError("'(' or identifier"))
         ELSE LET nn == new_node(p, "F", None) IN
              IF nn.p.current_token[1].type = LPAREN
              THEN LET lparen == new_node(_add_parse_step(nn.p, <<"F -> (E)">>), "(",
                                          nn.p.current_token)
                       c == _consume_token(lparen.p, LPAREN)
                   IN  IF c.error # None THEN Raise(c.p, c.error[1])
                       ELSE Call(c.p, [frame EXCEPT !.node = add_child(nn.node, lparen.node),
                                                    !.pc = "E"], "E")
              ELSE IF nn.p.current_token[1].type = ID
              THEN LET id == new_node(_add_parse_step(nn.p, <<"F -> id",
                                                              nn.p.current_token[1].value>>),
                                      "id", nn.p.current_token)
                       c == _consume_token(id.p, ID)
                   IN  IF c.error # None THEN Raise(c.p, c.error[1])
                       ELSE Return(c.p, add_child(nn.node, id.node))
              ELSE Raise(nn.p, ParserSyntaxError(<<"Expected '(' or identifier">>,
                                                 Some(nn.p.current_token[1].position),
                                                 nn.p.current_token,
                                                 Some("'(' or identifier")))
    ELSE LET e == add_child(frame.node, ret)
             rparen == new_node(p, ")", p.current_token)
             c == _consume_token(rparen.p, RPAREN)
         IN  IF c.error # None THEN Raise(c.p, c.error[1])
             ELSE Return(c.p, add_child(e, rparen.node))

\* a reset that leaves the node counter and the trace of the last call
parser_reset_partly(p, tokens) ==
    [p EXCEPT !.tokens = tokens, !.current_index = 0, !.errors = <<>>, !.warnings = <<>>]

\* the state reset at the entry of parse
parser_reset(p, tokens) ==
    [p EXCEPT !.tokens = tokens, !.current_index = 0, !.parse_steps = <<>>,
              !.errors = <<>>, !.warnings = <<>>, !.node_counter = 0]

ParserInit ==
    /\ parser = [tokens |-> <<>>, current_index |-> 0, current_token |-> None,
                 parse_tree_root |-> None, parse_steps |-> <<>>, errors |-> <<>>,
                 warnings |-> <<>>, node_counter |-> 0]
    /\ stack = <<>>
    /\ retval = None
    /\ pc = "idle"
    /\ outcome = None
    /\ last = "__init__"
    /\ eval_result = None
    /\ used = 0

\* the except clause of parse for ParserSyntaxError and SemanticError: the step
\* is recorded and the error raised again
ParseRaises(p, error) ==
    /\ parser' = _add_parse_step(p, <<"X", error>>)
    /\ stack' = <<>>
    /\ retval' = None
    /\ pc' = "done"
    /\ outcome' = Some([kind |-> "raise", error |-> error])

\* the token list tokenize returns for a string of valid characters without whitespace
TokensOf(texts) ==
    [i \in 1..Len(texts) |->
        _get_next_token([input_string |-> texts, position |-> i - 1,
                         current_char |-> Some(texts[i]), tokens |-> <<>>,
                         errors |-> <<>>]).token]

\* parse, from entry to the call of _parse_E
Parse(tokens) ==
    /\ pc \in {"idle", "done"}
    /\ last' = "parse"
    /\ used' = used + Len(tokens)
    /\ eval_result' = None
    /\ LET reset == parser_reset(parser, tokens)
           p == [reset EXCEPT !.current_token = Some(tokens[1])]
           sem == _perform_semantic_analysis(tokens)
       IN  IF tokens = <<>>
           THEN /\ parser' = reset
                /\ outcome' = Some([kind |-> "raise",
                                    error |-> UnexpectedEndOfInputError("expression")])
                /\ pc' = "done"
                /\ stack' = <<>>
                /\ retval' = None
           ELSE IF sem # None
           THEN /\ parser' = p
                /\ outcome' = Some([kind |-> "raise", error |-> sem[1]])
                /\ pc' = "done"
                /\ stack' = <<>>
                /\ retval' = None
           ELSE /\ parser' = _add_parse_step(p, <<"Starting parse with grammar rule: E">>)
                /\ outcome' = None
                /\ pc' = "derive"
                /\ stack' = <<Frame("E")>>
                /\ retval' = None

\* the effect of one routine step on the parser, the stack and the parse call
Apply(r) ==
    /\ UNCHANGED <<used, eval_result>>
    /\ IF r.kind = "call"
       THEN /\ parser' = r.p
            /\ stack' = Append(SubSeq(stack, 1, Len(stack) - 1), r.frame) \o <<Frame(r.fn)>>
            /\ retval' = None
            /\ UNCHANGED <<pc, outcome>>
       ELSE IF r.kind = "return"
       THEN /\ parser' = r.p
            /\ stack' = SubSeq(stack, 1, Len(stack) - 1)
            /\ retval' = Some(r.node)
            /\ pc' = IF Len(stack) = 1 THEN "complete" ELSE "derive"
            /\ UNCHANGED outcome
       ELSE ParseRaises(r.p, r.error)

Top == stack[Len(stack)]
Ret == IF retval = None THEN None ELSE retval[1]

ParseE ==
    /\ pc = "derive" /\ Top.fn = "E"
    /\ last' = "_parse_E"
    /\ Apply(_parse_E(parser, Top, Ret))

ParseEPrime ==
    /\ pc = "derive" /\ Top.fn = "E'"
    /\ last' = "_parse_E_prime"
    /\ Apply(_parse_E_prime(parser, Top, Ret))

ParseT ==
    /\ pc = "derive" /\ Top.fn = "T"
    /\ last' = "_parse_T"
    /\ Apply(_parse_T(parser, Top, Ret))

ParseTPrime ==
    /\ pc = "derive" /\ Top.fn = "T'"
    /\ last' = "_parse_T_prime"
    /\ Apply(_parse_T_prime(parser, Top, Ret))

ParseF ==
    /\ pc = "derive" /\ Top.fn = "F"
    /\ last' = "_parse_F"
    /\ Apply(_parse_F(parser, Top, Ret))

\* a list of the remaining tokens that leaves out the first of them
remaining_tokens_rest(p) ==
    [i \in 1..(Len(p.tokens) - p.current_index - 1) |->
         p.tokens[p.current_index + 1 + i].value]

\* [t.value for t in self.tokens[self.current_index:]]
remaining_tokens(p) ==
    [i \in 1..(Len(p.tokens) - p.current_index) |-> p.tokens[p.current_index + i].value]

\* parse after _parse_E has returned: the root is stored, then the check that
\* all tokens were consumed
ParseComplete ==
    /\ pc = "complete"
    /\ last' = "parse"
    /\ UNCHANGED <<used, eval_result>>
    /\ LET p == [parser EXCEPT !.parse_tree_root = retval] IN
       IF p.current_index < Len(p.tokens)
       THEN ParseRaises(p, ParserSyntaxError(
                <<"Unexpected tokens at end of input", remaining_tokens(p)>>,
                IF p.current_token # None THEN Some(p.current_token[1].position) ELSE None,
                p.current_token, None))
       ELSE /\ parser' = _add_parse_step(p, <<"Parsing completed successfully">>)
            /\ pc' = "evaluate"
            /\ retval' = None
            /\ UNCHANGED <<stack, outcome>>

\* the end of parse: the tree is evaluated and True returned
ParseEvaluate ==
    /\ pc = "evaluate"
    /\ last' = "parse"
    /\ UNCHANGED <<used, eval_result, stack, retval>>
    /\ LET root == evaluate(parser.parse_tree_root[1]) IN
       parser' = _add_parse_step([parser EXCEPT !.parse_tree_root = Some(root)],
                                 <<"Expression evaluates to", root.value>>)
    /\ pc' = "done"
    /\ outcome' = Some([kind |-> "return", value |-> TRUE])

\* Parser.get_evaluation_result
GetEvaluationResult ==
    /\ pc \in {"idle", "done"}
    /\ last' = "get_evaluation_result"
    /\ UNCHANGED <<used, stack, retval, pc, outcome>>
    /\ IF parser.parse_tree_root = None
       THEN /\ eval_result' = Some(None)
            /\ UNCHANGED parser
       ELSE LET root == evaluate(parser.parse_tree_root[1]) IN
            /\ parser' = [parser EXCEPT !.parse_tree_root = Some(root)]
            /\ eval_result' = Some(root.value)

\* Parser(): the fields of a new instance
Parser ==
    [tokens |-> <<>>, current_index |-> 0, current_token |-> None,
     parse_tree_root |-> None, parse_steps |-> <<>>, errors |-> <<>>,
     warnings |-> <<>>, node_counter |-> 0]

\* the routine of the frame on top of the stack stk, stepped with the node ret
\* its callee returned
routine(p, stk, ret) ==
    LET top == stk[Len(stk)] IN
    CASE top.fn = "E" -> _parse_E(p, top, ret)
      [] top.fn = "E'" -> _parse_E_prime(p, top, ret)
      [] top.fn = "T" -> _parse_T(p, top, ret)
      [] top.fn = "T'" -> _parse_T_prime(p, top, ret)
      [] top.fn = "F" -> _parse_F(p, top, ret)

\* the call self._parse_E() of parse, run to its return or to the error raised
RECURSIVE derive(_, _, _)
derive(p, stk, ret) ==
    LET r == routine(p, stk, ret) IN
    IF r.kind = "call"
    THEN derive(r.p, Append(SubSeq(stk, 1, Len(stk) - 1), r.frame) \o <<Frame(r.fn)>>, None)
    ELSE IF r.kind = "return" /\ Len(stk) > 1
    THEN derive(r.p, SubSeq(stk, 1, Len(stk) - 1), r.node)
    ELSE r

\* the except clause of parse, as a result
parse_raises(p, error) ==
    [p |-> _add_parse_step(p, <<"X", error>>),
     outcome |-> [kind |-> "raise", error |-> error]]

\* a whole parse call on the parser p0: the parser afterwards and the outcome
parse(p0, tokens) ==
    LET reset == parser_reset(p0, tokens)
        p == [reset EXCEPT !.current_token = Some(tokens[1])]
        sem == _perform_semantic_analysis(tokens)
    IN  IF tokens = <<>>
        THEN [p |-> reset,
              outcome |-> [kind |-> "raise", error |-> UnexpectedEndOfInputError("expression")]]
        ELSE IF sem # None
        THEN [p |-> p, outcome |-> [kind |-> "raise", error |-> sem[1]]]
        ELSE LET r == derive(_add_parse_step(p, <<"Starting parse with grammar rule: E">>),
                             <<Frame("E")>>, None)
             IN  IF r.kind = "raise" THEN parse_raises(r.p, r.error)
                 ELSE LET q == [r.p EXCEPT !.parse_tree_root = Some(r.node)] IN
                      IF q.current_index < Len(q.tokens)
                      THEN parse_raises(q, ParserSyntaxError(
                               <<"Unexpected tokens at end of input", remaining_tokens(q)>>,
                               IF q.current_token # None
                               THEN Some(q.current_token[1].position) ELSE None,
                               q.current_token, None))
                      ELSE LET root == evaluate(r.node)
                               done == _add_parse_step(q, <<"Parsing completed successfully">>)
                           IN  [p |-> _add_parse_step(
                                          [done EXCEPT !.parse_tree_root = Some(root)],
                                          <<"Expression evaluates to", root.value>>),
                                outcome |-> [kind |-> "return", value |-> TRUE]]

\* Parser.get_parse_tree: the string returned
get_parse_tree ==
    IF parser.parse_tree_root = None
    THEN <<"No parse tree generated">>
    ELSE <<"PARSE TREE (Hierarchical Structure)">>
         \o get_tree_string(parser.parse_tree_root[1], <<>>, TRUE)

ParserNext ==
    \/ /\ \E n \in 0..(MaxTokens - used) : \E texts \in [1..n -> Texts] :
              Parse(TokensOf(texts))
       /\ UNCHANGED <<lexvars, tabvars>>
    \/ ParseE /\ UNCHANGED <<lexvars, tabvars>>
    \/ ParseEPrime /\ UNCHANGED <<lexvars, tabvars>>
    \/ ParseT /\ UNCHANGED <<lexvars, tabvars>>
    \/ ParseTPrime /\ UNCHANGED <<lexvars, tabvars>>
    \/ ParseF /\ UNCHANGED <<lexvars, tabvars>>
    \/ ParseComplete /\ UNCHANGED <<lexvars, tabvars>>
    \/ ParseEvaluate /\ UNCHANGED <<lexvars, tabvars>>
    \/ GetEvaluationResult /\ UNCHANGED <<lexvars, tabvars>>

\* one parse call on a fresh Parser, over longer token sequences and, over the
\* texts DeepTexts, still longer ones
OnceNext ==
    \/ /\ pc = "idle"
       /\ \/ \E n \in 0..MaxOnceTokens : \E texts \in [1..n -> Texts] :
                 Parse(TokensOf(texts))
          \/ \E n \in 0..MaxDeepTokens : \E texts \in [1..n -> DeepTexts] :
                 Parse(TokensOf(texts))
       /\ UNCHANGED <<lexvars, tabvars>>
    \/ ParseE /\ UNCHANGED <<lexvars, tabvars>>
    \/ ParseEPrime /\ UNCHANGED <<lexvars, tabvars>>
    \/ ParseT /\ UNCHANGED <<lexvars, tabvars>>
    \/ ParseTPrime /\ UNCHANGED <<lexvars, tabvars>>
    \/ ParseF /\ UNCHANGED <<lexvars, tabvars>>
    \/ ParseComplete /\ UNCHANGED <<lexvars, tabvars>>
    \/ ParseEvaluate /\ UNCHANGED <<lexvars, tabvars>>

----------------------------------------------------------------------------
(* Symbol table: src/core/symbol_table.py *)

\* str.isalpha, str.isupper, str.islower on one ASCII character
isalpha(c) == c \in LetterChars
isupper(c) == c \in {"A", "B", "C", "X", "Y", "Z"}
islower(c) == c \in {"a", "b", "c", "x", "y", "z"}

\* SymbolTableEntry._get_token_attributes: the dictionary as a record, a key
\* that is not in the dictionary as None
_get_token_attributes(token) ==
    LET attributes == [category |-> None, value |-> None, case |-> None,
                       precedence |-> None, associativity |-> None]
    IN  IF token.type = ID
        THEN IF isdigit(token.value)
             THEN [attributes EXCEPT !.category = Some("NUMERIC"),
                                     !.value = Some(int(token.value))]
             ELSE IF isalpha(token.value)
             THEN [attributes EXCEPT !.category = Some("ALPHABETIC"),
                                     !.case = IF isupper(token.value) THEN Some("UPPERCASE")
                                              ELSE IF islower(token.value)
                                              THEN Some("LOWERCASE") ELSE None]
             ELSE attributes
        ELSE IF token.type \in {PLUS, MULTIPLY}
        THEN [attributes EXCEPT !.category = Some("OPERATOR"),
                                !.precedence = Some(IF token.type = MULTIPLY THEN 2 ELSE 1),
                                !.associativity = Some("LEFT")]
        ELSE IF token.type \in {LPAREN, RPAREN}
        THEN [attributes EXCEPT !.category = Some("DELIMITER")]
        ELSE attributes

\* SymbolTableEntry.__init__
SymbolTableEntry(token) ==
    [token_value |-> token.value, token_type |-> token.type, count |-> 1,
     positions |-> <<token.position>>, first_occurrence |-> token.position,
     attributes |-> _get_token_attributes(token)]

\* an add_occurrence that counts the occurrence without recording its position
add_occurrence_count_only(entry, token) ==
    [entry EXCEPT !.count = @ + 1]

\* SymbolTableEntry.add_occurrence
add_occurrence(entry, token) ==
    [entry EXCEPT !.count = @ + 1, !.positions = Append(@, token.position)]

\* defaultdict(int): a function on the keys the dictionary holds
defaultdict == [k \in {} |-> 0]

\* d[k] read on a defaultdict(int): the value, and the dictionary, which now
\* holds the key k
getitem(d, k) ==
    [value |-> IF k \in DOMAIN d THEN d[k] ELSE 0,
     d |-> [x \in DOMAIN d \cup {k} |-> IF x \in DOMAIN d THEN d[x] ELSE 0]]

\* d[k] += 1 on a defaultdict(int)
increment(d, k) ==
    [x \in DOMAIN d \cup {k} |->
        IF x = k THEN getitem(d, k).value + 1 ELSE d[x]]

\* f"{token.value}_{token.type}"
entry_key(token_value, token_type) == <<token_value, "_", token_type>>

\* SymbolTable(): the fields of a new instance; entries is the dictionary as the
\* sequence of its keys and values in insertion order
SymbolTable ==
    [entries |-> <<>>, total_tokens |-> 0, unique_tokens |-> 0,
     token_types_count |-> defaultdict]

\* an add_token without the test for tokens of kind Invalid
add_token_no_skip(t, token) ==
    LET counted == [t EXCEPT !.total_tokens = @ + 1,
                             !.token_types_count = increment(@, token.type)]
        key == entry_key(token.value, token.type)
        at == {i \in 1..Len(t.entries) : t.entries[i].key = key}
    IN  IF at # {}
        THEN LET i == CHOOSE i \in at : TRUE IN
             [counted EXCEPT !.entries[i].entry = add_occurrence(@, token)]
        ELSE [counted EXCEPT !.entries = Append(@, [key |-> key,
                                                   entry |-> SymbolTableEntry(token)]),
                             !.unique_tokens = @ + 1]

\* SymbolTable.add_token
add_token(t, token) ==
    IF ~is_valid(token) THEN t
    ELSE LET counted == [t EXCEPT !.total_tokens = @ + 1,
                                  !.token_types_count = increment(@, token.type)]
             key == entry_key(token.value, token.type)
             at == {i \in 1..Len(t.entries) : t.entries[i].key = key}
         IN  IF at # {}
             THEN LET i == CHOOSE i \in at : TRUE IN
                  [counted EXCEPT !.entries[i].entry = add_occurrence(@, token)]
             ELSE [counted EXCEPT !.entries = Append(@, [key |-> key,
                                                        entry |-> SymbolTableEntry(token)]),
                                  !.unique_tokens = @ + 1]

\* SymbolTable.get_statistics: the dictionary returned and the table after the
\* call; the reads of token_types_count follow the copy made for 'token_types'
get_statistics(t) ==
    LET id == getitem(t.token_types_count, ID)
        plus == getitem(id.d, PLUS)
        multiply == getitem(plus.d, MULTIPLY)
        lparen == getitem(multiply.d, LPAREN)
        rparen == getitem(lparen.d, RPAREN)
    IN  [stats |-> [total_tokens |-> t.total_tokens,
                    unique_tokens |-> t.unique_tokens,
                    token_types |-> t.token_types_count,
                    identifier_count |-> id.value,
                    operator_count |-> plus.value + multiply.value,
                    delimiter_count |-> lparen.value + rparen.value],
         t |-> [t EXCEPT !.token_types_count = rparen.d]]

\* a clear that leaves the per-kind counts
clear_keeps_kinds(t) ==
    [t EXCEPT !.entries = <<>>, !.total_tokens = 0, !.unique_tokens = 0]

\* SymbolTable.clear
clear(t) ==
    [t EXCEPT !.entries = <<>>, !.total_tokens = 0, !.unique_tokens = 0,
              !.token_types_count = defaultdict]

\* tokens given to add_token: two texts, each under three kinds, at two positions
TableTokens ==
    {Token(token_type, value, position) :
        token_type \in {ID, PLUS, INVALID}, value \in {"a", "+"}, position \in {0, 1}}

TableInit ==
    /\ table = SymbolTable
    /\ stats = None
    /\ table_log = <<>>

AddToken(token) ==
    /\ Len(table_log) < MaxTableCalls
    /\ table' = add_token(table, token)
    /\ table_log' = Append(table_log, [op |-> "add_token", token |-> Some(token)])
    /\ UNCHANGED stats

Clear ==
    /\ Len(table_log) < MaxTableCalls
    /\ table' = clear(table)
    /\ table_log' = Append(table_log, [op |-> "clear", token |-> None])
    /\ UNCHANGED stats

GetStatistics ==
    /\ Len(table_log) < MaxTableCalls
    /\ LET r == get_statistics(table) IN
       /\ table' = r.t
       /\ stats' = Some(r.stats)
    /\ table_log' = Append(table_log, [op |-> "get_statistics", token |-> None])

TableNext ==
    \/ (\E token \in TableTokens : AddToken(token)) /\ UNCHANGED <<lexvars, parvars>>
    \/ Clear /\ UNCHANGED <<lexvars, parvars>>
    \/ GetStatistics /\ UNCHANGED <<lexvars, parvars>>

----------------------------------------------------------------------------
(* Specifications *)

Init == LexerInit /\ ParserInit /\ TableInit

\* a Parser instance driven by parse and get_evaluation_result calls
Next == ParserNext
Spec == Init /\ [][Next]_vars

\* one parse call on a fresh Parser, over longer token sequences
SpecOnce == Init /\ [][OnceNext]_vars

\* a Lexer instance driven by tokenize calls
SpecLexer == Init /\ [][LexerNext]_vars

\* parse of the tokens the last tokenize call returned
ParseTokenized ==
    /\ lex_pc = "done"
    /\ lex_result[1].kind = "return"
    /\ used + Len(lex_result[1].tokens) <= MaxTokens
    /\ Parse(lex_result[1].tokens)

\* the analysis of the user interfaces: tokenize on the Lexer the application
\* keeps, then parse of the returned tokens on the Parser it keeps, then
\* get_evaluation_result
AnalysisNext ==
    \/ /\ pc \in {"idle", "done"}
       /\ \E n \in 0..(MaxAnalysisLen - lex_used) : \E input_string \in [1..n -> Chars] :
              Tokenize(input_string)
       /\ UNCHANGED <<parvars, tabvars>>
    \/ ScanStep /\ UNCHANGED <<parvars, tabvars>>
    \/ ScanEnd /\ UNCHANGED <<parvars, tabvars>>
    \/ ParseTokenized /\ UNCHANGED <<lexvars, tabvars>>
    \/ ParseE /\ UNCHANGED <<lexvars, tabvars>>
    \/ ParseEPrime /\ UNCHANGED <<lexvars, tabvars>>
    \/ ParseT /\ UNCHANGED <<lexvars, tabvars>>
    \/ ParseTPrime /\ UNCHANGED <<lexvars, tabvars>>
    \/ ParseF /\ UNCHANGED <<lexvars, tabvars>>
    \/ ParseComplete /\ UNCHANGED <<lexvars, tabvars>>
    \/ ParseEvaluate /\ UNCHANGED <<lexvars, tabvars>>
    \/ GetEvaluationResult /\ UNCHANGED <<lexvars, tabvars>>

SpecAnalysis == Init /\ [][AnalysisNext]_vars

\* a SymbolTable instance driven by add_token, clear and get_statistics calls
SpecTable == Init /\ [][TableNext]_vars

----------------------------------------------------------------------------
(* The grammar and ordinary arithmetic, stated without the parser *)

Kinds(tokens) == [i \in 1..Len(tokens) |-> tokens[i].type]

\* s, a sequence of token kinds, is derivable from the non-terminal
RECURSIVE DerivesE(_), DerivesEPrime(_), DerivesT(_), DerivesTPrime(_), DerivesF(_)
DerivesE(s) ==
    \E k \in 1..Len(s) : DerivesT(SubSeq(s, 1, k)) /\ DerivesEPrime(SubSeq(s, k + 1, Len(s)))
DerivesEPrime(s) ==
    \/ s = <<>>
    \/ /\ s[1] = PLUS
       /\ \E k \in 2..Len(s) :
              DerivesT(SubSeq(s, 2, k)) /\ DerivesEPrime(SubSeq(s, k + 1, Len(s)))
DerivesT(s) ==
    \E k \in 1..Len(s) : DerivesF(SubSeq(s, 1, k)) /\ DerivesTPrime(SubSeq(s, k + 1, Len(s)))
DerivesTPrime(s) ==
    \/ s = <<>>
    \/ /\ s[1] = MULTIPLY
       /\ \E k \in 2..Len(s) :
              DerivesF(SubSeq(s, 2, k)) /\ DerivesTPrime(SubSeq(s, k + 1, Len(s)))
DerivesF(s) ==
    \/ s = <<ID>>
    \/ /\ Len(s) >= 3
       /\ s[1] = LPAREN
       /\ s[Len(s)] = RPAREN
       /\ DerivesE(SubSeq(s, 2, Len(s) - 1))

\* number of parentheses open before position i of the token sequence s
Nesting(s, i) ==
    Cardinality({j \in 1..(i - 1) : s[j].type = LPAREN})
        - Cardinality({j \in 1..(i - 1) : s[j].type = RPAREN})

\* positions of the tokens of kind k of s that are inside no parentheses
TopLevel(s, k) == {i \in 1..Len(s) : s[i].type = k /\ Nesting(s, i) = 0}

Last(S) == CHOOSE i \in S : \A j \in S : j <= i

\* what an identifier is worth: a digit its number, a letter 1
Worth(text) ==
    CASE text = "0" -> 0 [] text = "1" -> 1 [] text = "2" -> 2 [] text = "3" -> 3
      [] text = "4" -> 4 [] text = "5" -> 5 [] text = "6" -> 6 [] text = "7" -> 7
      [] text = "8" -> 8 [] text = "9" -> 9 [] OTHER -> 1

\* the arithmetic value of a well-formed expression: a sum of its top-level terms,
\* else a product of its top-level factors, else the parenthesised expression,
\* else the identifier
RECURSIVE ArithValue(_)
ArithValue(s) ==
    IF TopLevel(s, PLUS) # {}
    THEN LET i == Last(TopLevel(s, PLUS))
         IN  ArithValue(SubSeq(s, 1, i - 1)) + ArithValue(SubSeq(s, i + 1, Len(s)))
    ELSE IF TopLevel(s, MULTIPLY) # {}
    THEN LET i == Last(TopLevel(s, MULTIPLY))
         IN  ArithValue(SubSeq(s, 1, i - 1)) * ArithValue(SubSeq(s, i + 1, Len(s)))
    ELSE IF s[1].type = LPAREN
    THEN ArithValue(SubSeq(s, 2, Len(s) - 1))
    ELSE Worth(s[1].value)

Done == pc = "done"
Accepted == Done /\ outcome = Some([kind |-> "return", value |-> TRUE])
Failed == Done /\ outcome # None /\ outcome[1].kind = "raise"
Texts_(tokens) == [i \in 1..Len(tokens) |-> tokens[i].value]

----------------------------------------------------------------------------
(* Claims *)

\* C1: a parse call that has ended has returned True if and only if the kinds of
\* its tokens are derivable from E, and has raised an error otherwise.
C1_AcceptsExactlyTheGrammar ==
    Done => IF DerivesE(Kinds(parser.tokens)) THEN Accepted ELSE Failed

\* an accepted sequence of the longest length, with a sum and a product inside
\* parentheses
C1_Witness ==
    /\ Accepted
    /\ Len(parser.tokens) = MaxDeepTokens
    /\ \E i, j, k \in 1..Len(parser.tokens) :
           /\ i < j /\ j < k
           /\ parser.tokens[i].type = LPAREN
           /\ parser.tokens[j].type = PLUS
           /\ parser.tokens[k].type = MULTIPLY

\* C2: after an accepted parse the value stored on the root is the arithmetic
\* value of the expression: * before +, parentheses grouping, a digit worth its
\* number, a letter worth 1.
C2_RootValueIsArithmetic ==
    Accepted => parser.parse_tree_root[1].value = Some(ArithValue(parser.tokens))

\* (2+2)*2 has been accepted: grouping changes the value
C2_Witness ==
    /\ Accepted
    /\ Texts_(parser.tokens) = <<"(", "2", "+", "2", ")", "*", "2">>
    /\ parser.parse_tree_root[1].value = Some(8)

\* C3: after a parse call that failed the Parser exposes no tree: no root, the
\* "No parse tree generated" text, and None from get_evaluation_result.
C3_NoTreeAfterFailure ==
    Failed =>
        /\ parser.parse_tree_root = None
        /\ get_parse_tree = <<"No parse tree generated">>
        /\ (last = "get_evaluation_result" => eval_result = Some(None))

\* The rules of the semantic pre-checks, stated on the token sequence
Operators == {PLUS, MULTIPLY}
AdjacentOperators(s) ==
    {i \in 1..(Len(s) - 1) : s[i].type \in Operators /\ s[i + 1].type \in Operators}
\* the ")" that close more than was opened before them
UnmatchedClosing(s) == {i \in 1..Len(s) : s[i].type = RPAREN /\ Nesting(s, i + 1) < 0}
First(S) == CHOOSE i \in S : \A j \in S : i <= j

\* number of the first violated rule, 0 if none is, and the token reported with it
FirstViolated(s) ==
    IF s = <<>> THEN [rule |-> 1, token |-> None]
    ELSE IF AdjacentOperators(s) # {}
    THEN [rule |-> 2, token |-> Some(s[First(AdjacentOperators(s))])]
    ELSE IF s[1].type \in Operators THEN [rule |-> 3, token |-> Some(s[1])]
    ELSE IF s[Len(s)].type \in Operators THEN [rule |-> 4, token |-> Some(s[Len(s)])]
    ELSE IF UnmatchedClosing(s) # {}
    THEN [rule |-> 5, token |-> Some(s[First(UnmatchedClosing(s))])]
    ELSE IF Nesting(s, Len(s) + 1) > 0 THEN [rule |-> 6, token |-> None]
    ELSE [rule |-> 0, token |-> None]

\* the rule an error reports, and its token
Reported(e) ==
    [rule |-> IF e.class = "UnexpectedEndOfInputError" /\ e.expected = Some("expression")
              THEN 1
              ELSE IF e.class # "SemanticError" THEN 0
              ELSE IF e.context = "operator sequence" THEN 2
              ELSE IF e.context = "expression start" THEN 3
              ELSE IF e.context = "expression end" THEN 4
              ELSE IF e.message = <<"Unmatched closing parenthesis">> THEN 5
              ELSE 6,
     token |-> e.token]

\* C4: a parse call on a sequence that violates a pre-check rule fails with the
\* error of the first violated rule in the order empty, adjacent operators
\* (leftmost pair), operator first, operator last, first unmatched ")", surplus
\* of "(", whatever other rules the sequence violates.
C4_FirstViolatedRuleReported ==
    (Done /\ FirstViolated(parser.tokens).rule # 0) =>
        Failed /\ Reported(outcome[1].error) = FirstViolated(parser.tokens)

\* an unmatched ")" has been reported for a sequence with a surplus of "("
C4_Witness ==
    /\ Failed
    /\ Reported(outcome[1].error).rule = 5
    /\ Nesting(parser.tokens, Len(parser.tokens) + 1) > 0

\* Characters of the input of tokenize
IsInvalidChar(c) == ~(c \in {"+", "*", "(", ")"} \/ isalnum(c) \/ isspace(c))
NonWhitespace(str) == SelectSeq(str, LAMBDA c : ~isspace(c))
KindOfChar(c) ==
    CASE c = "+" -> PLUS [] c = "*" -> MULTIPLY [] c = "(" -> LPAREN [] c = ")" -> RPAREN
      [] OTHER -> IF IsInvalidChar(c) THEN INVALID ELSE ID
LexDone == lex_pc = "done"

\* C5: on an input of valid characters with a non-whitespace character tokenize
\* records no error and returns one token per non-whitespace character, in
\* order, of the character's kind and text, none of kind Invalid.
C5_ValidInputTokenized ==
    ((\A i \in 1..Len(lex_arg) : ~IsInvalidChar(lex_arg[i])) /\ NonWhitespace(lex_arg) # <<>>)
    => /\ lexer.errors = <<>>
       /\ LexDone =>
            /\ lex_result = Some([kind |-> "return", tokens |-> lexer.tokens])
            /\ Len(lexer.tokens) = Len(NonWhitespace(lex_arg))
            /\ \A i \in 1..Len(lexer.tokens) :
                  /\ lexer.tokens[i].value = NonWhitespace(lex_arg)[i]
                  /\ lexer.tokens[i].type = KindOfChar(NonWhitespace(lex_arg)[i])
                  /\ lexer.tokens[i].type # INVALID

\* "a +2" has been tokenized
C5_Witness ==
    /\ LexDone
    /\ lex_arg = <<"a", " ", "+", "2">>
    /\ Len(lexer.tokens) = 3

\* the members of a set of numbers in increasing order
RECURSIVE Increasing(_)
Increasing(S) == IF S = {} THEN <<>> ELSE <<First(S)>> \o Increasing(S \ {First(S)})

\* offsets (from 1) of the invalid characters of the trimmed input
InvalidAt == Increasing({i \in 1..Len(lexer.input_string) :
                            IsInvalidChar(lexer.input_string[i])})

\* C6: on an input with invalid characters tokenize scans the whole input,
\* records one LexicalError per invalid character in order and an Invalid token
\* for each, and fails with the error of the leftmost one, which carries that
\* character and its offset in the trimmed input.
C6_AllErrorsRecordedFirstRaised ==
    (LexDone /\ \E i \in 1..Len(lex_arg) : IsInvalidChar(lex_arg[i])) =>
        /\ Len(lexer.tokens) = Len(NonWhitespace(lex_arg))
        /\ Len(lexer.errors) = Len(InvalidAt)
        /\ \A k \in 1..Len(InvalidAt) :
              /\ lexer.errors[k].class = "LexicalError"
              /\ lexer.errors[k].character = lexer.input_string[InvalidAt[k]]
              /\ lexer.errors[k].position = Some(InvalidAt[k] - 1)
        /\ SelectSeq(lexer.tokens, LAMBDA t : t.type = INVALID)
             = [k \in 1..Len(InvalidAt) |->
                   Token(INVALID, lexer.input_string[InvalidAt[k]], InvalidAt[k] - 1)]
        /\ lex_result = Some([kind |-> "raise", error |-> lexer.errors[1]])
        /\ lexer.errors[1].position = Some(InvalidAt[1] - 1)

\* two invalid characters with a valid one between them have been scanned
C6_Witness ==
    /\ LexDone
    /\ Len(lexer.errors) = 2
    /\ Len(lexer.tokens) = 3
    /\ lexer.tokens[2].type = ID

\* C7: tokenize fails with EmptyInputError exactly when its input holds nothing
\* but whitespace, and then the token and error lists of the lexer are empty.
C7_EmptyInputExactlyWhenBlank ==
    LexDone =>
        LET blank == \A i \in 1..Len(lex_arg) : isspace(lex_arg[i])
            empty == lex_result[1].kind = "raise"
                        /\ lex_result[1].error.class = "EmptyInputError"
        IN  /\ empty <=> blank
            /\ empty => lexer.tokens = <<>> /\ lexer.errors = <<>>

\* a blank input has been refused by a lexer that had tokenized before
C7_Witness ==
    /\ LexDone
    /\ lex_result = Some([kind |-> "raise", error |-> EmptyInputError])
    /\ Len(lex_arg) >= 1
    /\ lex_used > Len(lex_arg)

\* the tokens of the leaves of a tree, left to right
RECURSIVE Leaves(_)
RECURSIVE LeavesOf(_, _)
Leaves(node) ==
    IF node.token # None THEN <<node.token[1]>> ELSE LeavesOf(node.children, 1)
LeavesOf(children, i) ==
    IF i > Len(children) THEN <<>> ELSE Leaves(children[i]) \o LeavesOf(children, i + 1)

\* C8: the token-bearing leaves of an accepted tree, read left to right, are the
\* token sequence given to parse.
C8_LeavesAreTheTokens ==
    Accepted => Leaves(parser.parse_tree_root[1]) = parser.tokens

\* a longest sequence that starts with a parenthesis has been accepted
C8_Witness ==
    /\ Accepted
    /\ Len(parser.tokens) = MaxDeepTokens
    /\ parser.tokens[1].type = LPAREN
    /\ parser.tokens[3].type = MULTIPLY

\* C9: get_evaluation_result on an accepted tree returns the value parse stored
\* on the root and leaves the tree, and so its rendered string, as they were.
C9_EvaluationIdempotent ==
    [][(Accepted /\ last' = "get_evaluation_result") =>
          /\ eval_result' = Some(parser.parse_tree_root[1].value)
          /\ parser'.parse_tree_root = parser.parse_tree_root
          /\ get_parse_tree' = get_parse_tree]_vars

\* get_evaluation_result has returned 6 for the accepted 2*3
C9_Witness ==
    /\ Accepted
    /\ last = "get_evaluation_result"
    /\ Texts_(parser.tokens) = <<"2", "*", "3">>
    /\ eval_result = Some(Some(6))

\* C10: a parse call that fails a semantic pre-check has created no node,
\* consumed no token and recorded no derivation step.
C10_PreCheckFailsBeforeConstruction ==
    (Done /\ FirstViolated(parser.tokens).rule # 0) =>
        /\ parser.node_counter = 0
        /\ parser.current_index = 0
        /\ parser.parse_steps = <<>>
        /\ stack = <<>>

\* a pre-check has failed on a Parser whose earlier call had built a tree
C10_Witness ==
    /\ Failed
    /\ outcome[1].error.class = "SemanticError"
    /\ used > Len(parser.tokens)
    /\ parser.parse_tree_root # None

\* the length of the prefix of s at which the derivation of E from the start
\* ends with tokens left over: the shortest proper prefix derivable from E that
\* no operator follows; 0 if there is none
DerivedBeforeEnd(s) ==
    LET K == {k \in 1..(Len(s) - 1) :
                 DerivesE(Kinds(SubSeq(s, 1, k))) /\ s[k + 1].type \notin Operators}
    IN  IF K = {} THEN 0 ELSE First(K)

\* C11: when E is derived from the start and tokens are left over, parse fails
\* with a syntax error that names the remaining tokens in order and carries the
\* first of them and its position; parse never returns True with tokens left.
C11_TrailingTokensRefused ==
    /\ Accepted => parser.current_index = Len(parser.tokens)
    /\ (Done /\ FirstViolated(parser.tokens).rule = 0
             /\ DerivedBeforeEnd(parser.tokens) # 0) =>
          LET k == DerivedBeforeEnd(parser.tokens)
              e == outcome[1].error
          IN  /\ Failed
              /\ e.class = "ParserSyntaxError"
              /\ e.message = <<"Unexpected tokens at end of input",
                               Texts_(SubSeq(parser.tokens, k + 1, Len(parser.tokens)))>>
              /\ e.token = Some(parser.tokens[k + 1])
              /\ e.position = Some(parser.tokens[k + 1].position)
              /\ parser.current_index = k
    /\ (Failed /\ outcome[1].error.class = "ParserSyntaxError"
                /\ outcome[1].error.expected = None) =>
          /\ FirstViolated(parser.tokens).rule = 0
          /\ DerivedBeforeEnd(parser.tokens) = parser.current_index

\* (2)a3 has been refused: E derived (2), the tokens a and 3 are left over
C11_Witness ==
    /\ Failed
    /\ Texts_(parser.tokens) = <<"(", "2", ")", "a", "3">>
    /\ outcome[1].error.message = <<"Unexpected tokens at end of input", <<"a", "3">>>>

\* C12: on a Lexer and a Parser used before, a tokenize call leaves the tokens
\* and errors lists and gives the result, and a parse call gives the outcome,
\* the derivation steps, the cursor and the node numbering, that the same call
\* gives on a new instance.
C12_CallsDependOnArgumentOnly ==
    /\ LexDone =>
          LET fresh == tokenize(Lexer, lex_arg)
          IN  /\ lexer.tokens = fresh.lx.tokens
              /\ lexer.errors = fresh.lx.errors
              /\ lex_result = Some(fresh.result)
    /\ Done =>
          LET fresh == parse(Parser, parser.tokens)
          IN  /\ outcome = Some(fresh.outcome)
              /\ parser.parse_steps = fresh.p.parse_steps
              /\ parser.current_index = fresh.p.current_index
              /\ parser.node_counter = fresh.p.node_counter
              /\ Accepted => parser.parse_tree_root = fresh.p.parse_tree_root

\* a parse call on tokens returned by a Lexer used before has failed with a
\* syntax error on a Parser used before
C12_Witness ==
    /\ Failed
    /\ LexDone
    /\ parser.tokens = lexer.tokens
    /\ lex_used > Len(lex_arg)
    /\ used > Len(parser.tokens)
    /\ outcome[1].error.class = "ParserSyntaxError"

\* number of tokens of kind k in s
Count(s, k) == Cardinality({i \in 1..Len(s) : s[i].type = k})

\* C13: when no earlier check fires and more parentheses are opened than closed,
\* parse fails with the SemanticError "N unmatched opening parenthesis(es)",
\* N the number of LParen tokens minus the number of RParen tokens.
C13_UnmatchedOpeningCount ==
    (Done /\ FirstViolated(parser.tokens).rule = 6) =>
        /\ Failed
        /\ outcome[1].error.class = "SemanticError"
        /\ outcome[1].error.message =
               <<Count(parser.tokens, LPAREN) - Count(parser.tokens, RPAREN),
                 "unmatched opening parenthesis(es)">>

\* 2 unmatched opening parentheses have been reported for a sequence with a ")"
C13_Witness ==
    /\ Failed
    /\ Reported(outcome[1].error).rule = 6
    /\ outcome[1].error.message[1] = 2
    /\ Count(parser.tokens, RPAREN) >= 1

\* C14: a parse call on a token sequence that is not accepted returns False.
C14_ReturnsFalseWhenNotAccepted ==
    (Done /\ ~DerivesE(Kinds(parser.tokens))) =>
        /\ outcome[1].kind = "return"
        /\ outcome[1].value = FALSE

\* index in the log of the last clear call, 0 if there is none
LastClear ==
    LET C == {i \in 1..Len(table_log) : table_log[i].op = "clear"}
    IN  IF C = {} THEN 0 ELSE Last(C)

\* the valid tokens given to add_token since the last clear, in order
AddedSinceClear ==
    LET calls == SelectSeq(SubSeq(table_log, LastClear + 1, Len(table_log)),
                           LAMBDA c : c.op = "add_token" /\ c.token[1].type # INVALID)
    IN  [i \in 1..Len(calls) |-> calls[i].token[1]]

RECURSIVE SumOfCounts(_)
SumOfCounts(entries) ==
    IF entries = <<>> THEN 0 ELSE Head(entries).entry.count + SumOfCounts(Tail(entries))

RECURSIVE SumOver(_, _)
SumOver(f, S) ==
    IF S = {} THEN 0 ELSE LET k == CHOOSE k \in S : TRUE IN f[k] + SumOver(f, S \ {k})

\* C15: the table holds one entry per distinct (value, kind) pair among the
\* valid tokens added since the last clear; unique_tokens is the number of
\* entries; total_tokens is the sum of the entries' counts and of the per-kind
\* counts; an entry's count is the length of its positions list, which holds the
\* positions of its tokens in order and starts with first_occurrence.
C15_OneEntryPerValueAndKind ==
    LET added == AddedSinceClear
        pairs == {<<added[i].value, added[i].type>> : i \in 1..Len(added)}
        entries == table.entries
    IN  /\ {<<entries[i].entry.token_value, entries[i].entry.token_type>> :
                i \in 1..Len(entries)} = pairs
        /\ Len(entries) = Cardinality(pairs)
        /\ table.unique_tokens = Len(entries)
        /\ table.total_tokens = Len(added)
        /\ table.total_tokens = SumOfCounts(entries)
        /\ table.total_tokens
               = SumOver(table.token_types_count, DOMAIN table.token_types_count)
        /\ \A i \in 1..Len(entries) :
               LET entry == entries[i].entry
                   mine == SelectSeq(added, LAMBDA t : t.value = entry.token_value
                                                       /\ t.type = entry.token_type)
               IN  /\ entry.count = Len(entry.positions)
                   /\ entry.positions[1] = entry.first_occurrence
                   /\ entry.positions = [j \in 1..Len(mine) |-> mine[j].position]

\* after a clear one text has been added under two kinds, under one of them twice
C15_Witness ==
    /\ LastClear > 0
    /\ Len(table.entries) = 2
    /\ table.entries[1].entry.token_value = table.entries[2].entry.token_value
    /\ table.entries[1].entry.positions = <<1, 0>>

\* the call made last on the table
LastCall == table_log[Len(table_log)]

\* C16: add_token called with a token of kind Invalid leaves the entries,
\* total_tokens, unique_tokens and the per-kind counts of the table as they were.
C16_InvalidTokenIgnored ==
    [][(/\ Len(table_log') = Len(table_log) + 1
        /\ table_log'[Len(table_log')].op = "add_token"
        /\ table_log'[Len(table_log')].token[1].type = INVALID)
       => table' = table]_vars

\* a token of kind Invalid has been given to a table that holds an entry
C16_Witness ==
    /\ table_log # <<>>
    /\ LastCall.op = "add_token"
    /\ LastCall.token[1].type = INVALID
    /\ table.entries # <<>>
    /\ table.total_tokens = Len(table_log) - 1

\* the calls of a log made one after the other on the table t: the table
\* afterwards and what the last get_statistics call returned
RECURSIVE Replay(_, _, _)
Replay(t, returned, calls) ==
    IF calls = <<>> THEN [t |-> t, stats |-> returned]
    ELSE LET c == Head(calls) IN
         IF c.op = "add_token" THEN Replay(add_token(t, c.token[1]), returned, Tail(calls))
         ELSE IF c.op = "clear" THEN Replay(clear(t), returned, Tail(calls))
         ELSE LET r == get_statistics(t) IN Replay(r.t, Some(r.stats), Tail(calls))

\* C17: right after clear the table has no entries, total and unique counts 0
\* and every per-kind count 0, and after the calls that follow a clear the
\* entries and statistics are those the same calls give on a new table.
C17_ClearResetsToNew ==
    /\ (table_log # <<>> /\ LastCall.op = "clear") =>
           /\ table.entries = <<>>
           /\ table.total_tokens = 0
           /\ table.unique_tokens = 0
           /\ \A k \in {PLUS, MULTIPLY, LPAREN, RPAREN, ID, INVALID} :
                  getitem(table.token_types_count, k).value = 0
    /\ LastClear > 0 =>
           LET new == Replay(SymbolTable, None,
                             SubSeq(table_log, LastClear + 1, Len(table_log)))
           IN  /\ table = new.t
               /\ LastCall.op = "get_statistics" => stats = new.stats

\* a table that held a token has been cleared, given a token and asked for its
\* statistics
C17_Witness ==
    /\ LastClear = 2
    /\ table_log[1].op = "add_token"
    /\ table_log[1].token[1].type # INVALID
    /\ Len(table_log) = 4
    /\ LastCall.op = "get_statistics"
    /\ table.entries # <<>>

\* the deepest nesting of parentheses in the token sequence s
NestingDepth(s) ==
    LET D == {Nesting(s, i) : i \in 1..(Len(s) + 1)}
    IN  CHOOSE d \in D : \A e \in D : e <= d

\* C18: the depth of the recursion of the parser routines is bounded by the
\* nesting depth of the parentheses: at most one activation of each of the five
\* routines for every level of nesting.
C18_RecursionDepthBoundedByNesting ==
    pc = "derive" => Len(stack) <= 5 * (NestingDepth(parser.tokens) + 1)

\* C19: the position of every token tokenize returns is the offset, from 0, of
\* the token's character in the string given to tokenize.
C19_PositionIsOffsetInInput ==
    (LexDone /\ lex_result[1].kind = "return") =>
        \A i \in 1..Len(lex_result[1].tokens) :
            LET t == lex_result[1].tokens[i]
            IN  /\ t.position < Len(lex_arg)
                /\ CharAt(lex_arg, t.position) = t.value

\* the nodes of a tree
RECURSIVE NodesOf(_)
NodesOf(node) ==
    {node} \cup UNION {NodesOf(node.children[i]) : i \in 1..Len(node.children)}

\* the T nodes of the accepted tree
TNodes == {n \in NodesOf(parser.parse_tree_root[1]) : n.rule = "T"}

\* the T' of the T node n is a multiplication that totals 1
GenuineProductOfOne(n) == n.children[2].children # <<>> /\ n.children[2].value = Some(1)

\* C20: the value of every T node F T' of an accepted tree is F.value * T'.value,
\* also where T' is a multiplication that totals 1 and the fallback to F.value
\* alone is taken: the fallback does not undercount.
C20_FallbackKeepsTheProduct ==
    Accepted =>
        \A n \in TNodes :
            n.value = Some(n.children[1].value[1] * n.children[2].value[1])

\* a tree has been accepted in which the T' of a T with a factor worth more
\* than 1 is a multiplication that totals 1
C20_Witness ==
    /\ Accepted
    /\ \E n \in TNodes : GenuineProductOfOne(n) /\ n.children[1].value[1] > 1

\* C20 as stated: where T' is a multiplication that totals 1, the value of T is
\* smaller than F.value * T'.value.
C20_FallbackUndercounts ==
    Accepted =>
        \A n \in TNodes :
            GenuineProductOfOne(n) =>
                n.value[1] < n.children[1].value[1] * n.children[2].value[1]

\* the rules of the children of a node, left to right
ChildRules(n) == [i \in 1..Len(n.children) |-> n.children[i].rule]

\* the kind of token a terminal node of the rule carries
TerminalKind(rule) ==
    CASE rule = "+" -> PLUS [] rule = "*" -> MULTIPLY [] rule = "(" -> LPAREN
      [] rule = ")" -> RPAREN [] rule = "id" -> ID

\* the node n is an instance of one production of the grammar
MatchesProduction(n) ==
    CASE n.rule = "E" -> n.token = None /\ ChildRules(n) = <<"T", "E'">>
      [] n.rule = "T" -> n.token = None /\ ChildRules(n) = <<"F", "T'">>
      [] n.rule = "E'" -> n.token = None /\ ChildRules(n) \in {<<>>, <<"+", "T", "E'">>}
      [] n.rule = "T'" -> n.token = None /\ ChildRules(n) \in {<<>>, <<"*", "F", "T'">>}
      [] n.rule = "F" -> n.token = None /\ ChildRules(n) \in {<<"id">>, <<"(", "E", ")">>}
      [] n.rule \in {"+", "*", "(", ")", "id"} ->
             /\ n.children = <<>>
             /\ n.token # None
             /\ n.token[1].type = TerminalKind(n.rule)
      [] OTHER -> FALSE

\* C21: every node of an accepted tree matches one production, its children in
\* the order of the grammar; a terminal node carries its token and has no
\* children; the root is an E.
C21_NodesMatchProductions ==
    Accepted =>
        /\ parser.parse_tree_root[1].rule = "E"
        /\ \A n \in NodesOf(parser.parse_tree_root[1]) : MatchesProduction(n)

\* a tree with a node of each of the eight alternatives has been accepted
C21_Witness ==
    /\ Accepted
    /\ Cardinality({<<n.rule, ChildRules(n)>> :
                       n \in {m \in NodesOf(parser.parse_tree_root[1]) : m.token = None}}) = 8

\* the current token of the parser p is the token at its cursor, absent when
\* the cursor is at the end
CursorAtToken(p) ==
    p.current_token = IF p.current_index < Len(p.tokens)
                      THEN Some(p.tokens[p.current_index + 1])
                      ELSE None

\* the tokens of the "Consumed" entries of a derivation trace, in order
ConsumedIn(parse_steps) ==
    LET entries == SelectSeq(parse_steps, LAMBDA step : step[1] = "Consumed")
    IN  [i \in 1..Len(entries) |-> entries[i][2]]

\* the kinds of token the routine on top of the call stack may consume in its
\* next step
Expected ==
    CASE Top.fn = "E'" -> {PLUS}
      [] Top.fn = "T'" -> {MULTIPLY}
      [] Top.fn = "F" /\ Top.pc = "start" -> {LPAREN, ID}
      [] Top.fn = "F" /\ Top.pc # "start" -> {RPAREN}
      [] OTHER -> {}

FailsAtCursor(expected) ==
    /\ pc' = "done"
    /\ outcome' # None
    /\ outcome'[1].kind = "raise"
    /\ outcome'[1].error.class = "ParserSyntaxError"
    /\ outcome'[1].error.expected = Some(expected)
    /\ parser.current_index < Len(parser.tokens)
    /\ outcome'[1].error.token = Some(parser.tokens[parser.current_index + 1])
    /\ parser'.current_index = parser.current_index
    /\ parser'.current_token = parser.current_token
    /\ ConsumedIn(parser'.parse_steps) = ConsumedIn(parser.parse_steps)

\* the kind of the current token, "" when there is none
CurrentKind == IF parser.current_token = None THEN "" ELSE parser.current_token[1].type

\* C23: when _parse_F has derived the E of F -> ( E ) and the current token is
\* not a ")", the parse call fails with a syntax error that expects RPAREN and
\* carries the token at the cursor; when _parse_F starts and the current token is
\* neither "(" nor an identifier, the call fails with a syntax error that carries
\* that token and expects "'(' or identifier"; neither consumes the token.
C23_FactorErrors ==
    [][(pc = "derive" /\ Top.fn = "F") =>
         /\ (Top.pc # "start" /\ CurrentKind \notin {RPAREN})
               => FailsAtCursor(RPAREN)
         /\ (Top.pc = "start" /\ CurrentKind \notin {LPAREN, ID})
               => FailsAtCursor("'(' or identifier")]_vars

\* a parenthesised sum was derived and the token after it is not a ")"
C23_Witness ==
    /\ Failed
    /\ last = "_parse_F"
    /\ outcome[1].error.class = "ParserSyntaxError"
    /\ outcome[1].error.expected = Some(RPAREN)
    /\ parser.current_index >= 4
    /\ \E i \in 1..parser.current_index : parser.tokens[i].type = PLUS

\* the trace entry of the production that a non-terminal node was derived by
ProductionEntry(n) ==
    CASE n.rule = "E" -> <<"E -> TE'">>
      [] n.rule = "T" -> <<"T -> FT'">>
      [] n.rule = "E'" -> IF n.children = <<>> THEN <<"E' -> eps">> ELSE <<"E' -> +TE'">>
      [] n.rule = "T'" -> IF n.children = <<>> THEN <<"T' -> eps">> ELSE <<"T' -> *FT'">>
      [] n.rule = "F" -> IF n.children[1].rule = "id"
                         THEN <<"F -> id", n.children[1].token[1].value>>
                         ELSE <<"F -> (E)">>

RECURSIVE EntriesOf(_)
\* the trace entries of a subtree in derivation order: the production entry of
\* a non-terminal node and then the entries of its children from left to right;
\* the "Consumed" entry of a terminal node
EntriesOf(n) ==
    IF n.rule \in {"+", "*", "(", ")", "id"}
    THEN <<<<"Consumed", n.token[1]>>>>
    ELSE LET RECURSIVE below(_)
             below(i) == IF i > Len(n.children) THEN <<>>
                         ELSE EntriesOf(n.children[i]) \o below(i + 1)
         IN  <<ProductionEntry(n)>> \o below(1)

\* C24: after an accepted parse the derivation trace is the start entry, then
\* the entries of the tree in derivation order (one production entry per
\* non-terminal node, before the entries of its descendants, and one "Consumed"
\* entry per terminal node), then the completion entry and the evaluation entry;
\* the "Consumed" entries are the input tokens in order.
C24_TraceFollowsTheTree ==
    Accepted =>
        /\ parser.parse_steps
             = <<<<"Starting parse with grammar rule: E">>>>
               \o EntriesOf(parser.parse_tree_root[1])
               \o <<<<"Parsing completed successfully">>,
                     <<"Expression evaluates to", parser.parse_tree_root[1].value>>>>
        /\ ConsumedIn(parser.parse_steps) = parser.tokens

\* a longest sequence with parentheses, a sum and a product was accepted
C24_Witness ==
    /\ Accepted
    /\ Len(parser.tokens) = MaxDeepTokens
    /\ {LPAREN, PLUS, MULTIPLY} \subseteq {parser.tokens[i].type : i \in 1..Len(parser.tokens)}
    /\ Len(parser.parse_steps) > Len(parser.tokens) + 3

\* C25: a token sequence derivable from E passes every semantic pre-check (no
\* adjacent operators, no operator first or last, the parenthesis counter never
\* negative and zero at the end), and a parse call on it does not fail with a
\* SemanticError.
C25_PreChecksPassTheGrammar ==
    (pc # "idle" /\ DerivesE(Kinds(parser.tokens))) =>
        /\ check_consecutive(parser.tokens) = None
        /\ check_start(parser.tokens) = None
        /\ check_end(parser.tokens) = None
        /\ paren_scan(parser.tokens, 1, 0) = [bad |-> 0, count |-> 0]
        /\ _perform_semantic_analysis(parser.tokens) = None
        /\ Failed => outcome[1].error.class # "SemanticError"

\* a longest sequence with a sum and parentheses inside parentheses was accepted
C25_Witness ==
    /\ Accepted
    /\ DerivesE(Kinds(parser.tokens))
    /\ Len(parser.tokens) = MaxDeepTokens
    /\ \E i \in 1..Len(parser.tokens) : Nesting(parser.tokens, i) >= 2
    /\ \E i \in 1..Len(parser.tokens) : parser.tokens[i].type = PLUS

\* C26: a parse call on a non-empty token sequence that passes the semantic
\* pre-checks never fails with an UnexpectedEndOfInputError: when it fails, it
\* fails with a ParserSyntaxError that carries the token it found.
C26_NeverOutOfInput ==
    (Failed /\ parser.tokens # <<>> /\ _perform_semantic_analysis(parser.tokens) = None) =>
        /\ outcome[1].error.class = "ParserSyntaxError"
        /\ outcome[1].error.token # None
        /\ outcome[1].error.token = parser.current_token

\* a longest sequence passed the pre-checks and failed after three or more
\* tokens had been consumed
C26_Witness ==
    /\ Failed
    /\ Len(parser.tokens) = MaxDeepTokens
    /\ _perform_semantic_analysis(parser.tokens) = None
    /\ outcome[1].error.class = "ParserSyntaxError"
    /\ parser.current_index >= 3
    /\ last = "_parse_F"

\* C27: a get_statistics call leaves the state of the table as it was, and when
\* the call before it was a get_statistics call too, it returns the same result,
\* the per-kind 'token_types' map included.
C27_StatisticsIsPure ==
    [][(/\ Len(table_log') = Len(table_log) + 1
        /\ table_log'[Len(table_log')].op = "get_statistics")
       => /\ table' = table
          /\ (table_log # <<>> /\ LastCall.op = "get_statistics") => stats' = stats]_vars

\* the step is the return of a tokenize call, which hands its caller a list
ReturnsTokens ==
    /\ lex_pc = "scan"
    /\ lex_pc' = "done"
    /\ lex_result'[1].kind = "return"

\* C28: a parse call is given the list the caller holds, and every step of the
\* call, whether it ends accepted or failed, and every get_evaluation_result call
\* leave the list and its tokens as they were; the steps of a later tokenize
\* call on the same Lexer leave the list returned by an earlier call as it was.
C28_TokenListsNotMutated ==
    [][/\ (pc \in {"idle", "done"} /\ pc' # pc /\ last' = "parse")
             => parser'.tokens = held[1].tokens
       /\ (pc \in {"derive", "complete", "evaluate"} \/ last' = "get_evaluation_result")
             => parser'.tokens = parser.tokens
       /\ parvars' # parvars => held' = held
       /\ (held # None /\ ~ReturnsTokens)
             => /\ held' # None
                /\ held'[1].tokens = held[1].tokens]_vars

\* a later tokenize call has added a token while the caller holds the list
\* of an earlier call, which a parse call was given and has failed on
C28_Witness ==
    /\ lex_pc = "scan"
    /\ lexer.tokens # <<>>
    /\ held # None
    /\ held[1].tokens # <<>>
    /\ Failed
    /\ parser.tokens = held[1].tokens

\* the nodes of the trees under construction: those the routines on the call
\* stack hold, the one returned last, and the root before its evaluation
NodesUnderConstruction ==
    UNION ({NodesOf(stack[i].node) : i \in {j \in 1..Len(stack) : stack[j].node # None}}
           \cup {NodesOf(retval[1]) : x \in {y \in {1} : retval # None}}
           \cup {NodesOf(parser.parse_tree_root[1]) :
                     x \in {y \in {1} : pc = "evaluate" /\ parser.parse_tree_root # None}})

\* C29: after an accepted parse every E, E', T, T' and F node and every id leaf
\* of the tree holds a value and no "+", "*", "(" or ")" leaf does; until the
\* tree is evaluated no node of it holds a value.
C29_ValuesAfterEvaluationOnly ==
    /\ Accepted =>
           \A n \in NodesOf(parser.parse_tree_root[1]) :
               IF n.rule \in {"+", "*", "(", ")"} THEN n.value = None ELSE n.value # None
    /\ pc \in {"derive", "complete", "evaluate"} =>
           \A n \in NodesUnderConstruction : n.value = None

\* an accepted tree in which an E' holds 0, a T' holds 1 and another node more
\* than 1
C29_Witness ==
    /\ Accepted
    /\ \E a, b, c \in NodesOf(parser.parse_tree_root[1]) :
           /\ a.rule = "E'" /\ a.value = Some(0)
           /\ b.rule = "T'" /\ b.value = Some(1)
           /\ c.rule = "(" /\ c.value = None
    /\ parser.parse_tree_root[1].value[1] > 1

\* every node of the subtree is as deep as its distance d from the root says
RECURSIVE DepthIsDistance(_, _)
DepthIsDistance(node, d) ==
    /\ node.depth = d
    /\ \A i \in 1..Len(node.children) : DepthIsDistance(node.children[i], d + 1)

\* C30: in the tree of an accepted parse the depth of every node is its distance
\* from the root: 0 for the root, 1 for its children, 2 for theirs, and so on.
C30_DepthIsDistanceFromRoot ==
    Accepted => DepthIsDistance(parser.parse_tree_root[1], 0)

====
